---- MODULE Spec2Model ----
(***************************************************************************)
(* Model of cloud/lxd/lxd_container.py: LxdContainerManagement.run drives  *)
(* one LXD container to the state named by the module parameter `state`,   *)
(* by running lxc commands, and optionally waits for IPv4 addresses.       *)
(*                                                                         *)
(* The lxc command line and the wall clock are the environment: a command  *)
(* either succeeds with its effect on the container or fails without one,  *)
(* and the clock advances only in time.sleep.                              *)
(***************************************************************************)
EXTENDS Integers, Sequences, FiniteSets, TLC

\* ------------------------------------------------------------------ bounds
MaxRuns == 2
MaxTimeout == 2
MaxLines == 2

\* --------------------------------------------------------------- constants
PollInterval == 1

None == "None"
Absent == "Absent"

\* statuses `lxc info` prints for an existing container; "Error" stands for
\* every status that ANSIBLE_LXD_STATES does not know
Statuses == {"Running", "Stopped", "Frozen", "Error"}
Containers == Statuses \cup {Absent}

Interfaces == {"lo", "eth0", "eth1"}
Families == {"inet", "inet6"}
Address == "10.0.0.1"

States == {"started", "stopped", "restarted", "frozen", "absent"}

\* values of the parameters profiles and config; the first are the defaults
DefaultProfiles == <<"default">>
ProfileLists == {DefaultProfiles, <<>>, <<"default", "docker">>}
NoConfig == [some |-> FALSE, val |-> {}]
Configs == {NoConfig, [some |-> TRUE, val |-> {<<"security.nesting", "true">>}]}
Timeouts == (0 - 1)..MaxTimeout

VARIABLES
    container,   \* the container at the LXD daemon: Absent or its status
    now,         \* datetime.datetime.now()
    state,       \* module.params['state']
    force,       \* module.params['force']
    timeout_for_addresses,
    profiles,    \* module.params['profiles']
    config,      \* module.params['config']: [some |-> FALSE] is None
    live,        \* profiles and config of the container at the LXD daemon
    old_state,   \* self.old_state
    logs,        \* self.logs
    addresses,   \* self.addresses: [some |-> FALSE] is None
    due,         \* local of _get_addresses
    todo,        \* the commands the dispatched handler has still to run
    wait,        \* whether the dispatched handler ends in _get_addresses
    pc,          \* position of control in run
    result,      \* what exit_json / fail_json was called with
    issued,      \* the run_command calls of this run, in order
    lastPoll,    \* the Ips lines the last address query printed
    runNo,       \* number of this invocation of main
    prev         \* summary of the previous invocation

vars == <<container, now, state, force, timeout_for_addresses, profiles,
          config, live, old_state, logs,
          addresses, due, todo, wait, pc, result, issued, lastPoll, runNo, prev>>

\* ------------------------------------------------------------ module tables
LXD_ANSIBLE_STATES == [started |-> "_started", stopped |-> "_stopped",
                       restarted |-> "_restarted", frozen |-> "_frozen",
                       absent |-> "_destroyed"]

ANSIBLE_LXD_STATES(status) ==
    CASE status = "Running" -> "started"
      [] status = "Stopped" -> "stopped"
      [] status = "Frozen" -> "frozen"
      [] OTHER -> None

NoAddresses == [some |-> FALSE, val |-> <<>>]

NoResult == [kind |-> "none", keys |-> {}, msg |-> "", changed |-> FALSE,
             logs |-> <<>>, old_state |-> None, status |-> None,
             addresses |-> NoAddresses]

NoPrev == [ran |-> FALSE, ok |-> FALSE]

\* ------------------------------------------------------------------ handlers
\* A handler is the sequence of lxc commands it runs, decided by old_state
\* alone, and whether it ends by calling _get_addresses.
\* _started launching again over a stopped container
_started_Relaunch(old) ==
    [cmds |-> IF old = None \/ old = "stopped" THEN <<"launch">>
              ELSE IF old # "started" THEN <<"start">> ELSE <<>>,
     wait |-> TRUE]

_started(old) ==
    [cmds |-> IF old = None THEN <<"launch">>
              ELSE IF old # "started" THEN <<"start">> ELSE <<>>,
     wait |-> TRUE]

\* _stopped stopping whatever it finds
_stopped_Always(old) ==
    [cmds |-> IF old = None THEN <<"launch", "stop">>
              ELSE IF old = "frozen" THEN <<"start", "pause">>
              ELSE <<"stop">>,
     wait |-> FALSE]

_stopped(old) ==
    [cmds |-> IF old = None THEN <<"launch", "stop">>
              ELSE IF old = "frozen" THEN <<"start", "pause">>
              ELSE IF old # "stopped" THEN <<"stop">> ELSE <<>>,
     wait |-> FALSE]

\* _restarted creating the container in its last branch
_restarted_Relaunch(old) ==
    [cmds |-> IF old = None THEN <<"launch">>
              ELSE IF old = "frozen" THEN <<"start", "restart">>
              ELSE IF old = "started" THEN <<"restart">>
              ELSE <<"launch">>,
     wait |-> TRUE]

\* _restarted without the start that thaws a frozen container
_restarted_NoThaw(old) ==
    [cmds |-> IF old = None THEN <<"launch">>
              ELSE IF old \in {"frozen", "started"} THEN <<"restart">>
              ELSE <<"start">>,
     wait |-> TRUE]

_restarted(old) ==
    [cmds |-> IF old = None THEN <<"launch">>
              ELSE IF old = "frozen" THEN <<"start", "restart">>
              ELSE IF old = "started" THEN <<"restart">>
              ELSE <<"start">>,
     wait |-> TRUE]

\* _frozen ending in _get_addresses like _started
_frozen_Waits(old) ==
    [cmds |-> IF old = None THEN <<"launch", "pause">>
              ELSE IF old = "started" THEN <<"pause">>
              ELSE IF old = "stopped" THEN <<"start", "pause">> ELSE <<>>,
     wait |-> TRUE]

_frozen(old) ==
    [cmds |-> IF old = None THEN <<"launch", "pause">>
              ELSE IF old = "started" THEN <<"pause">>
              ELSE IF old = "stopped" THEN <<"start", "pause">> ELSE <<>>,
     wait |-> FALSE]

\* _destroyed stopping a running container before it deletes it
_destroyed_StopFirst(old) ==
    [cmds |-> IF old = None THEN <<>>
              ELSE IF old = "started" THEN <<"stop", "delete">>
              ELSE IF old = "frozen" THEN <<"start", "stop", "delete">>
              ELSE <<"delete">>,
     wait |-> FALSE]

_destroyed(old) ==
    [cmds |-> IF old # None THEN <<"delete">> ELSE <<>>,
     wait |-> FALSE]

\* getattr(self, LXD_ANSIBLE_STATES[self.state])
action(s, old) ==
    CASE LXD_ANSIBLE_STATES[s] = "_started" -> _started(old)
      [] LXD_ANSIBLE_STATES[s] = "_stopped" -> _stopped(old)
      [] LXD_ANSIBLE_STATES[s] = "_restarted" -> _restarted(old)
      [] LXD_ANSIBLE_STATES[s] = "_frozen" -> _frozen(old)
      [] LXD_ANSIBLE_STATES[s] = "_destroyed" -> _destroyed(old)

\* ------------------------------------------------------------------- backend
\* cmd.append('--force') of _stop_container, _restart_container, _delete_container
ForceFlag(cmd, f) == f /\ cmd \in {"stop", "restart", "delete"}

\* whether the LXD daemon accepts the command on a container in status c
Accepts(cmd, c, forced) ==
    CASE cmd = "launch" -> c = Absent
      [] cmd = "start" -> c \in {"Stopped", "Frozen"}
      [] cmd = "stop" -> c = "Running"
      [] cmd = "restart" -> c = "Running"
      [] cmd = "pause" -> c = "Running"
      [] cmd = "delete" -> c = "Stopped" \/ (forced /\ c # Absent)
      [] cmd = "info" -> c # Absent
      [] OTHER -> FALSE

\* the container after the command succeeded
Effect(cmd, c) ==
    CASE cmd = "launch" -> "Running"
      [] cmd = "start" -> "Running"
      [] cmd = "stop" -> "Stopped"
      [] cmd = "restart" -> "Running"
      [] cmd = "pause" -> "Frozen"
      [] cmd = "delete" -> Absent
      [] OTHER -> c

\* what the daemon keeps of a container: its profiles and its config, to
\* which it adds keys of its own under volatile.
NoLive == [profiles |-> <<>>, config |-> {}]

VolatileConfig == {<<"volatile.base_image", "0a1b">>}

\* the -p and -c arguments of lxc launch: a lone -p stands for no profile
NoArgs == [p |-> <<>>, c |-> {}]

\* _launch_container leaving the config out of the command
LaunchArgs_NoConfig(p, c) ==
    [p |-> IF Len(p) = 0 THEN <<"">> ELSE p, c |-> {}]

LaunchArgs(p, c) ==
    [p |-> IF Len(p) = 0 THEN <<"">> ELSE p,
     c |-> IF c.some THEN c.val ELSE {}]

LiveAfter(cmd, l, args) ==
    CASE cmd = "launch" ->
             [profiles |-> SelectSeq(args.p, LAMBDA v : v # ""),
              config |-> args.c \cup VolatileConfig]
      [] cmd = "delete" -> NoLive
      [] OTHER -> l

Call(cmd, ok) == [cmd |-> cmd, force |-> ForceFlag(cmd, force), ok |-> ok,
                  pre |-> container,
                  args |-> IF cmd = "launch" THEN LaunchArgs(profiles, config)
                           ELSE NoArgs]

\* module.run_command(cmd, check_rc=True) that failed: fail_json of the
\* command's output, without changed and without logs
CommandFailed(cmd) ==
    [NoResult EXCEPT !.kind = "fail_json", !.keys = {"msg", "rc", "cmd"},
                     !.msg = cmd]

\* the log written before the command is known to have succeeded
LogAfter_Always(l, cmd, ok) == Append(l, cmd)

\* self.logs.append(...) follows run_command(cmd, check_rc=True), which does
\* not return when the command failed
LogAfter(l, cmd, ok) == IF ok THEN Append(l, cmd) ELSE l

\* every call of the run so far succeeded; `lxc info` on a container that does
\* not exist is the observation Absent, not a failure
CallsOk(calls) ==
    \A i \in 1..Len(calls) :
        calls[i].ok \/ (calls[i].cmd = "info" /\ calls[i].pre = Absent)

\* ------------------------------------------------------------ address query
IpsLine == [interface : Interfaces, family : Families, address : {Address}]

\* the lines between "Ips:" and "Resources:" of `lxc info`
IpsOutputs == UNION {[1..n -> IpsLine] : n \in 0..MaxLines}

_get_container_status(rc, c) == IF rc = 0 THEN c ELSE None

_get_container_addresses(lines) ==
    LET names == {lines[k].interface : k \in 1..Len(lines)} \ {"lo"}
        inet(i) == SelectSeq(lines, LAMBDA l : l.interface = i /\ l.family = "inet")
    IN [i \in names |-> [k \in 1..Len(inet(i)) |-> inet(i)[k].address]]

\* the test without its len(addresses) > 0
_has_all_ipv4_addresses_AllowEmpty(a) ==
    \A i \in DOMAIN a : Len(a[i]) > 0

_has_all_ipv4_addresses(a) ==
    Cardinality(DOMAIN a) > 0 /\ \A i \in DOMAIN a : Len(a[i]) > 0

\* the loop giving up one interval early
LoopCond_Early(t, d) == t + PollInterval < d

\* while datetime.datetime.now() < due
LoopCond(t, d) == t < d

\* _on_timeout reporting a plain failure
TimeoutJson_Plain(l) ==
    [NoResult EXCEPT !.kind = "fail_json",
                     !.keys = {"failed", "msg", "changed", "logs"},
                     !.msg = "timeout for getting addresses",
                     !.changed = FALSE,
                     !.logs = <<>>]

\* the arguments of fail_json in _on_timeout
TimeoutJson(l) ==
    [NoResult EXCEPT !.kind = "fail_json",
                     !.keys = {"failed", "msg", "changed", "logs"},
                     !.msg = "timeout for getting addresses",
                     !.changed = Len(l) > 0,
                     !.logs = l]

\* exit_json reporting changed whenever the handler ran
ResultJson_AlwaysChanged(l, old, a) ==
    [NoResult EXCEPT !.kind = "exit_json",
                     !.keys = {"changed", "old_state", "logs"}
                              \cup (IF a.some THEN {"addresses"} ELSE {}),
                     !.changed = TRUE,
                     !.old_state = old,
                     !.logs = l,
                     !.addresses = a]

\* the arguments of exit_json in run
ResultJson(l, old, a) ==
    [NoResult EXCEPT !.kind = "exit_json",
                     !.keys = {"changed", "old_state", "logs"}
                              \cup (IF a.some THEN {"addresses"} ELSE {}),
                     !.changed = Len(l) > 0,
                     !.old_state = old,
                     !.logs = l,
                     !.addresses = a]

\* the test taken for a container that does not exist
Unsupported_Inverted(status, old) == status = None /\ old = None

\* if status is not None and old_state is None
Unsupported(status, old) == status # None /\ old = None

\* the arguments of fail_json in run
UnsupportedJson(status) ==
    [NoResult EXCEPT !.kind = "fail_json",
                     !.keys = {"failed", "msg", "status"},
                     !.msg = "unsupported container status",
                     !.status = status]

\* ---------------------------------------------------------------------- Init
Init ==
    /\ container \in Containers
    /\ now = 0
    /\ state \in States
    /\ force \in BOOLEAN
    /\ timeout_for_addresses \in Timeouts
    /\ profiles = DefaultProfiles
    /\ config = NoConfig
    /\ live = IF container = Absent THEN NoLive
              ELSE [profiles |-> DefaultProfiles, config |-> VolatileConfig]
    /\ old_state = None
    /\ logs = <<>>
    /\ addresses = NoAddresses
    /\ due = 0
    /\ todo = <<>>
    /\ wait = FALSE
    /\ pc = "run"
    /\ result = NoResult
    /\ issued = <<>>
    /\ lastPoll = <<>>
    /\ runNo = 1
    /\ prev = NoPrev

\* the same with the parameters profiles and config, and the profiles and
\* config of a container that exists, left open, and the wait short
InitConfig ==
    /\ container \in Containers
    /\ now = 0
    /\ state \in States
    /\ force \in BOOLEAN
    /\ timeout_for_addresses \in {0, PollInterval}
    /\ profiles \in ProfileLists
    /\ config \in Configs
    /\ live \in IF container = Absent THEN {NoLive}
                ELSE {[profiles |-> q, config |-> c.val \cup VolatileConfig] :
                          q \in ProfileLists, c \in Configs}
    /\ old_state = None
    /\ logs = <<>>
    /\ addresses = NoAddresses
    /\ due = 0
    /\ todo = <<>>
    /\ wait = FALSE
    /\ pc = "run"
    /\ result = NoResult
    /\ issued = <<>>
    /\ lastPoll = <<>>
    /\ runNo = 1
    /\ prev = NoPrev

\* ------------------------------------------------------------------- actions
\* run, up to the dispatch of the handler
run ==
    /\ pc = "run"
    /\ \E rc \in {0, 1} :
        /\ (rc = 0) => container # Absent
        /\ LET status == _get_container_status(rc, container)
               old == ANSIBLE_LXD_STATES(status)
           IN /\ issued' = Append(issued, Call("info", rc = 0))
              /\ IF Unsupported(status, old)
                 THEN /\ result' = UnsupportedJson(status)
                      /\ pc' = "done"
                      /\ UNCHANGED <<old_state, todo, wait>>
                 ELSE /\ old_state' = old
                      /\ todo' = action(state, old).cmds
                      /\ wait' = action(state, old).wait
                      /\ pc' = "action"
                      /\ UNCHANGED result
    /\ UNCHANGED <<container, now, state, force, timeout_for_addresses, profiles, config, live, logs,
                   addresses, due, lastPoll, runNo, prev>>

\* one lxc command of the handler: run_command(cmd, check_rc=True), then
\* self.logs.append
RunCommand(cmd) ==
    /\ pc = "action"
    /\ todo # <<>>
    /\ Head(todo) = cmd
    /\ \E ok \in BOOLEAN :
        /\ ok => Accepts(cmd, container, ForceFlag(cmd, force))
        /\ issued' = Append(issued, Call(cmd, ok))
        /\ logs' = LogAfter(logs, cmd, ok)
        /\ IF ok
           THEN /\ container' = Effect(cmd, container)
                /\ live' = LiveAfter(cmd, live, Call(cmd, ok).args)
                /\ todo' = Tail(todo)
                /\ UNCHANGED <<pc, result>>
           ELSE /\ result' = CommandFailed(cmd)
                /\ pc' = "done"
                /\ UNCHANGED <<container, live, todo>>
    /\ UNCHANGED <<now, state, force, timeout_for_addresses, profiles, config,
                   old_state, addresses, due, wait, lastPoll, runNo, prev>>

_launch_container == RunCommand("launch")

_start_container == RunCommand("start")

_stop_container == RunCommand("stop")

_restart_container == RunCommand("restart")

_pause_container == RunCommand("pause")

_delete_container == RunCommand("delete")

\* _get_addresses, up to the loop
_get_addresses ==
    /\ pc = "action"
    /\ todo = <<>>
    /\ wait
    /\ IF timeout_for_addresses <= 0
       THEN /\ pc' = "exit_json"
            /\ UNCHANGED due
       ELSE /\ due' = now + timeout_for_addresses
            /\ pc' = "while"
    /\ UNCHANGED <<container, now, state, force, timeout_for_addresses, profiles, config, live,
                   old_state, logs, addresses, todo, wait, result, issued,
                   lastPoll, runNo, prev>>

\* the loop testing the deadline after the sleep as well: addresses found
\* once the deadline has passed are dropped
_get_addresses_poll_DeadlineFirst ==
    /\ pc = "while"
    /\ LoopCond(now, due)
    /\ now' = now + PollInterval
    /\ \E ok \in BOOLEAN, lines \in IpsOutputs :
        /\ ok => Accepts("info", container, FALSE)
        /\ ~ok => lines = <<>>
        /\ issued' = Append(issued, Call("info", ok))
        /\ lastPoll' = lines
        /\ IF ~ok
           THEN /\ result' = CommandFailed("info")
                /\ pc' = "done"
                /\ UNCHANGED addresses
           ELSE LET a == _get_container_addresses(lines)
                IN IF LoopCond(now', due) /\ _has_all_ipv4_addresses(a)
                   THEN /\ addresses' = [some |-> TRUE, val |-> a]
                        /\ pc' = "exit_json"
                        /\ UNCHANGED result
                   ELSE UNCHANGED <<addresses, pc, result>>
    /\ UNCHANGED <<container, state, force, timeout_for_addresses, profiles, config, live, old_state,
                   logs, due, todo, wait, runNo, prev>>

\* one iteration of the loop of _get_addresses: sleep, query, test
_get_addresses_poll ==
    /\ pc = "while"
    /\ LoopCond(now, due)
    /\ now' = now + PollInterval
    /\ \E ok \in BOOLEAN, lines \in IpsOutputs :
        /\ ok => Accepts("info", container, FALSE)
        /\ ~ok => lines = <<>>
        /\ issued' = Append(issued, Call("info", ok))
        /\ lastPoll' = lines
        /\ IF ~ok
           THEN /\ result' = CommandFailed("info")
                /\ pc' = "done"
                /\ UNCHANGED addresses
           ELSE LET a == _get_container_addresses(lines)
                IN IF _has_all_ipv4_addresses(a)
                   THEN /\ addresses' = [some |-> TRUE, val |-> a]
                        /\ pc' = "exit_json"
                        /\ UNCHANGED result
                   ELSE UNCHANGED <<addresses, pc, result>>
    /\ UNCHANGED <<container, state, force, timeout_for_addresses, profiles, config, live, old_state,
                   logs, due, todo, wait, runNo, prev>>

\* fail_json returning to its caller: _get_addresses returns and run goes on
\* to exit_json
_on_timeout_Returns ==
    /\ pc = "while"
    /\ ~LoopCond(now, due)
    /\ result' = TimeoutJson(logs)
    /\ pc' = "exit_json"
    /\ UNCHANGED <<container, now, state, force, timeout_for_addresses, profiles, config, live,
                   old_state, logs, addresses, due, todo, wait, issued,
                   lastPoll, runNo, prev>>

\* the loop of _get_addresses ran out: fail_json, which does not return
_on_timeout ==
    /\ pc = "while"
    /\ ~LoopCond(now, due)
    /\ result' = TimeoutJson(logs)
    /\ pc' = "done"
    /\ UNCHANGED <<container, now, state, force, timeout_for_addresses, profiles, config, live,
                   old_state, logs, addresses, due, todo, wait, issued,
                   lastPoll, runNo, prev>>

\* run, after the handler returned
exit_json ==
    /\ \/ pc = "exit_json"
       \/ pc = "action" /\ todo = <<>> /\ ~wait
    /\ result' = ResultJson(logs, old_state, addresses)
    /\ pc' = "done"
    /\ UNCHANGED <<container, now, state, force, timeout_for_addresses, profiles, config, live,
                   old_state, logs, addresses, due, todo, wait, issued,
                   lastPoll, runNo, prev>>

\* the task is run again with the same parameters: main builds a new
\* LxdContainerManagement
main ==
    /\ pc = "done"
    /\ runNo < MaxRuns
    /\ runNo' = runNo + 1
    /\ prev' = [ran |-> TRUE,
                ok |-> result.kind = "exit_json" /\ CallsOk(issued)]
    /\ old_state' = None
    /\ logs' = <<>>
    /\ addresses' = NoAddresses
    /\ due' = 0
    /\ todo' = <<>>
    /\ wait' = FALSE
    /\ pc' = "run"
    /\ result' = NoResult
    /\ issued' = <<>>
    /\ lastPoll' = <<>>
    /\ UNCHANGED <<container, now, state, force, timeout_for_addresses, profiles, config, live>>

Next ==
    \/ run
    \/ _launch_container
    \/ _start_container
    \/ _stop_container
    \/ _restart_container
    \/ _pause_container
    \/ _delete_container
    \/ _get_addresses
    \/ _get_addresses_poll
    \/ _on_timeout
    \/ exit_json
    \/ main

Spec == Init /\ [][Next]_vars

SpecConfig == InitConfig /\ [][Next]_vars

\* ------------------------------------------------------------------- claims
\* DesiredState mapped onto ResourceState
Target(s) ==
    CASE s = "started" -> "Running"
      [] s = "restarted" -> "Running"
      [] s = "stopped" -> "Stopped"
      [] s = "frozen" -> "Frozen"
      [] s = "absent" -> Absent

\* the calls of the run that are lifecycle commands, and the address queries
Lifecycle == SelectSeq(issued, LAMBDA c : c.cmd # "info")

Polls == IF issued = <<>> THEN <<>>
         ELSE SelectSeq(Tail(issued), LAMBDA c : c.cmd = "info")

Cmds(calls) == [k \in 1..Len(calls) |-> calls[k].cmd]

\* the run ended in exit_json and none of its lxc calls failed
RunSucceeded == pc = "done" /\ result.kind = "exit_json" /\ CallsOk(issued)

\* the address wait of the run ran out: the handler reached _get_addresses
\* with a positive timeout, no query failed and none was ready
WaitRanOut ==
    /\ pc = "done"
    /\ wait /\ todo = <<>>
    /\ timeout_for_addresses > 0
    /\ CallsOk(issued)
    /\ ~addresses.some

\* C1: whenever a run succeeds with every lxc call succeeding, the container
\* is in the state the parameter `state` maps to (started/restarted ->
\* Running, stopped -> Stopped, frozen -> Frozen, absent -> Absent).
C1_TransitionCompleteness == RunSucceeded => container = Target(state)

\* C2: a second run with the same parameters, right after a run that
\* succeeded, runs no command: its log is empty and it reports changed=false.
C2_Idempotence ==
    (runNo >= 2 /\ prev.ok /\ RunSucceeded)
        => logs = <<>> /\ ~result.changed

\* C3: stop and restart are never issued on a container that is Frozen at
\* that moment; on a container observed Frozen they come after a successful
\* start (the unfreeze) of the same run.
C3_FreezePrecondition ==
    \A i \in 1..Len(issued) :
        issued[i].cmd \in {"stop", "restart"} =>
            /\ issued[i].pre # "Frozen"
            /\ old_state = "frozen" =>
                   \E j \in 1..(i - 1) : /\ issued[j].cmd = "start"
                                         /\ issued[j].pre = "Frozen"
                                         /\ issued[j].ok

C3_Witness ==
    /\ old_state = "frozen"
    /\ \E i \in 1..Len(issued) : issued[i].cmd = "restart"

\* C4 as stated: delete is issued only on a Stopped container unless --force
\* is given, after a stop when the container was observed Running and after
\* start (unfreeze) and stop when it was observed Frozen.
C4_DeletePrecondition ==
    \A i \in 1..Len(issued) :
        issued[i].cmd = "delete" =>
            /\ issued[i].pre = "Stopped" \/ issued[i].force
            /\ old_state = "started" =>
                   \E j \in 1..(i - 1) : issued[j].cmd = "stop"
            /\ old_state = "frozen" =>
                   \E j \in 1..(i - 1) : issued[j].cmd = "stop"

\* C4 amended: with state=absent the only lifecycle command of a run is one
\* delete, issued iff the container was observed to exist, on the container
\* as observed (Stopped, Running or Frozen) and with --force exactly when
\* the parameter force is set; no stop or start comes before it.
C4_DeleteDirect ==
    state = "absent" =>
        /\ Len(Lifecycle) <= 1
        /\ \A i \in 1..Len(Lifecycle) :
               /\ Lifecycle[i].cmd = "delete"
               /\ Lifecycle[i].force = force
               /\ old_state # None
               /\ ANSIBLE_LXD_STATES(Lifecycle[i].pre) = old_state
        /\ (pc = "done" /\ old_state # None) => Len(Lifecycle) = 1

C4_Witness ==
    /\ pc = "done"
    /\ \E i \in 1..Len(issued) : /\ issued[i].cmd = "delete"
                                 /\ issued[i].pre = "Running"
                                 /\ ~issued[i].force

\* C5: every outcome that reports changed (exit_json and the timeout
\* fail_json) reports changed=true iff the log of the run is non-empty.
C5_ChangedIffLog ==
    "changed" \in result.keys =>
        /\ result.changed <=> Len(logs) > 0
        /\ result.logs = logs

C5_Witness ==
    /\ result.kind = "fail_json"
    /\ "changed" \in result.keys
    /\ result.changed

\* C6: when the address wait ran out the run ended in fail_json, without
\* addresses, with changed and with exactly the commands that ran before the
\* wait: state=started on a Running container gives changed=false and no
\* logs, a run that ran commands gives changed=true.
C6_TimeoutOutcome ==
    WaitRanOut =>
        /\ result.kind = "fail_json"
        /\ result.msg = "timeout for getting addresses"
        /\ "addresses" \notin result.keys
        /\ {"changed", "logs"} \subseteq result.keys
        /\ result.logs = Cmds(Lifecycle)
        /\ result.changed <=> Len(Lifecycle) > 0
        /\ (state = "started" /\ old_state = "started") =>
               ~result.changed /\ result.logs = <<>>

C6_Witness == WaitRanOut /\ result.changed /\ Len(Lifecycle) > 0

\* C7: an address query is made only with a positive timeout_for_addresses,
\* only with state started or restarted and only after the handler ran all
\* its commands; no lifecycle command follows a query.
C7_AddressWaitGating ==
    /\ Len(Polls) > 0 =>
           /\ timeout_for_addresses > 0
           /\ state \in {"started", "restarted"}
           /\ todo = <<>>
    /\ \A i \in 2..Len(issued) :
           issued[i].cmd = "info" =>
               \A j \in i..Len(issued) : issued[j].cmd = "info"

C7_Witness == Len(Polls) > 0 /\ Len(Lifecycle) > 0

\* the readiness condition stated on the lines of the query: some interface
\* other than lo is listed, and every such interface has an inet line
Ready(lines) ==
    LET listed == {lines[k].interface : k \in 1..Len(lines)} \ {"lo"}
    IN /\ listed # {}
       /\ \A i \in listed :
              \E k \in 1..Len(lines) : /\ lines[k].interface = i
                                       /\ lines[k].family = "inet"

\* C8: the wait succeeds on a query iff the query listed at least one
\* interface other than lo and every one of them with an IPv4 address.
C8_Readiness ==
    (Len(Polls) > 0 /\ Polls[Len(Polls)].ok) =>
        /\ addresses.some <=> Ready(lastPoll)
        /\ addresses.some =>
               /\ DOMAIN addresses.val # {}
               /\ \A i \in DOMAIN addresses.val : Len(addresses.val[i]) > 0

C8_Witness == addresses.some /\ Cardinality(DOMAIN addresses.val) = 2

C10_FatalAbort ==
    /\ logs = Cmds(SelectSeq(Lifecycle, LAMBDA c : c.ok))
    /\ \A i \in 1..Len(issued) :
           (issued[i].cmd # "info" /\ ~issued[i].ok) =>
               /\ i = Len(issued)
               /\ pc = "done"
               /\ result.kind = "fail_json"
               /\ container = issued[i].pre

C10_Witness ==
    /\ Len(logs) > 0
    /\ Len(todo) > 0
    /\ ~issued[Len(issued)].ok

\* the status query of the run: the first call
StatusCall == issued[1]

\* the log an outcome carries; an outcome without logs carries none
CarriedLog == IF "logs" \in result.keys THEN result.logs ELSE <<>>

\* C11 as stated: every fail_json of a run carries a message and the log of
\* the run so far (an outcome without logs counting as an empty log).
C11_FatalCarriesLog ==
    result.kind = "fail_json" =>
        /\ "msg" \in result.keys
        /\ CarriedLog = logs

\* C12 as stated: when the status query fails on a container that exists, the
\* run runs no lifecycle command and ends in fail_json.
C12_StatusFailureFatal ==
    (Len(issued) > 0 /\ ~StatusCall.ok /\ StatusCall.pre # Absent) =>
        /\ Lifecycle = <<>>
        /\ pc = "done"
        /\ result.kind = "fail_json"

\* C13: when lxc info reports a status other than Running, Stopped and
\* Frozen, the run ends at once in fail_json with that status string: no
\* lifecycle command, no address query, the container untouched, whatever
\* the parameter state.
C13_UnsupportedStatus ==
    (Len(issued) > 0 /\ StatusCall.ok
        /\ StatusCall.pre \notin {"Running", "Stopped", "Frozen"}) =>
        /\ Len(issued) = 1
        /\ pc = "done"
        /\ result.kind = "fail_json"
        /\ result.msg = "unsupported container status"
        /\ "status" \in result.keys
        /\ result.status = StatusCall.pre
        /\ logs = <<>>
        /\ container = StatusCall.pre

C13_Witness ==
    /\ Len(issued) > 0 /\ StatusCall.ok
    /\ StatusCall.pre = "Error"
    /\ state = "absent"

\* the status query answered: it printed a status, or there is no container
Observed == Len(issued) > 0 /\ CallsOk(<<StatusCall>>)

\* C14: when the status query finds the container in the state asked for
\* (started on Running, stopped on Stopped, frozen on Frozen, absent on
\* Absent) the run issues no lifecycle command, leaves the container as it
\* is, and what it reports is an empty log and changed=false.
C14_NoOpAtTarget ==
    (Observed /\ state # "restarted" /\ StatusCall.pre = Target(state)) =>
        /\ todo = <<>>
        /\ Lifecycle = <<>>
        /\ logs = <<>>
        /\ container = StatusCall.pre
        /\ "changed" \in result.keys => ~result.changed /\ result.logs = <<>>
        /\ RunSucceeded => "changed" \in result.keys

C14_Witness ==
    /\ Observed /\ state = "stopped" /\ StatusCall.pre = "Stopped"
    /\ RunSucceeded

\* C15 as stated: state=stopped on a container observed Frozen runs exactly
\* start (the unfreeze) and stop, and leaves the container Stopped.
C15_StoppedFromFrozen ==
    (state = "stopped" /\ old_state = "frozen" /\ RunSucceeded) =>
        /\ logs = <<"start", "stop">>
        /\ container = "Stopped"

C18_CreatePrecondition ==
    \A i \in 1..Len(issued) :
        /\ issued[i].cmd = "launch" =>
               /\ old_state = None
               /\ ~StatusCall.ok
               /\ i = 2
        /\ issued[i].cmd \in {"start", "stop", "restart", "pause", "delete"} =>
               issued[i].pre # Absent

C18_Witness ==
    /\ Len(Lifecycle) = 2
    /\ Lifecycle[1].cmd = "launch" /\ Lifecycle[1].pre = Absent
    /\ Lifecycle[2].cmd = "pause"

\* C20: with a positive timeout the wait runs out only right after a query
\* that succeeded and was not ready, so never without a query; a query that
\* is ready ends the wait in success, with the addresses and without the
\* timeout failure, also when the deadline passed during the sleep before it.
C20_PollBeforeTimeout ==
    /\ WaitRanOut =>
           /\ Len(Polls) >= 1
           /\ issued[Len(issued)].cmd = "info" /\ issued[Len(issued)].ok
           /\ ~Ready(lastPoll)
    /\ (Len(Polls) > 0 /\ Polls[Len(Polls)].ok /\ Ready(lastPoll)) =>
           /\ addresses.some
           /\ addresses.val = _get_container_addresses(lastPoll)
           /\ result.kind # "fail_json"
           /\ pc = "done" => "addresses" \in result.keys

C20_Witness ==
    /\ addresses.some
    /\ Len(Polls) = timeout_for_addresses
    /\ now >= due
    /\ pc = "done"

\* the most lxc commands a handler runs
MaxCommands == 2

\* how far run has got: every step of a run moves it on, or stays in the
\* handler with one command fewer to run, or stays in the loop of the wait
\* with the clock one poll interval nearer to due
Position(p) ==
    CASE p = "run" -> 4
      [] p = "action" -> 3
      [] p = "while" -> 2
      [] p = "exit_json" -> 1
      [] p = "done" -> 0

Advances ==
    \/ Position(pc') < Position(pc)
    \/ /\ pc = "action" /\ pc' = "action"
       /\ Len(todo') < Len(todo)
    \/ /\ pc = "while" /\ pc' = "while"
       /\ now < due /\ due' = due
       /\ due' - now' < due - now

\* C19: every run ends, and in exactly one outcome: a run that has not ended
\* can always take a step and every step advances it, so it ends after a
\* bounded number of steps (a handler runs at most two commands, the wait
\* makes at most timeout_for_addresses queries); it has an outcome exactly
\* when it has ended, and the outcome is not replaced.
C19_Termination ==
    /\ [](pc # "done" => ENABLED Next)
    /\ [][runNo' = runNo => Advances]_vars
    /\ [](pc = "done" <=> result.kind \in {"exit_json", "fail_json"})
    /\ [](result.kind \in {"none", "exit_json", "fail_json"})
    /\ [][result.kind # "none" => (result' = result \/ runNo' # runNo)]_vars
    /\ [](Len(Lifecycle) <= MaxCommands)
    /\ [](Len(Polls) > 0 => Len(Polls) * PollInterval <= timeout_for_addresses)

C19_Witness ==
    /\ pc = "done"
    /\ result.kind = "exit_json"
    /\ Len(Lifecycle) = MaxCommands
    /\ runNo = MaxRuns

\* the commands the module runs
LxcCommands == {"info", "launch", "start", "stop", "restart", "pause", "delete"}

\* a live config without the keys the daemon manages
StripVolatile(cfg) == {kv \in cfg : kv[1] \notin {v[1] : v \in VolatileConfig}}

\* the comparisons of the desired config and profiles against the live ones:
\* the config map, when one is given, after stripping volatile keys, and the
\* profile list as a list
Differs ==
    \/ config.some /\ config.val # StripVolatile(live.config)
    \/ profiles # live.profiles

\* a command that is none of the lifecycle commands and queries was run
ApplyConfigRun == \E i \in 1..Len(issued) : issued[i].cmd \notin LxcCommands

\* the run found the container and was not asked to remove it
KeepsExisting ==
    /\ Len(issued) > 0 /\ StatusCall.ok
    /\ old_state # None
    /\ state # "absent"

\* C16 as stated: for a container that exists, the run applies the desired
\* config exactly when config or profiles differ from the live ones.
C16_ConfigGating ==
    (KeepsExisting /\ RunSucceeded) => (Differs <=> ApplyConfigRun)

\* C16 amended: config and profiles are used only as arguments of launch: a
\* launched container has the desired profiles and config, and the profiles
\* and config of a container that exists are never compared or changed,
\* whether or not they differ from the desired ones.
C16_ConfigOnlyAtLaunch ==
    /\ [](~ApplyConfigRun /\ \A i \in 1..Len(todo) : todo[i] \in LxcCommands)
    /\ [][(container # Absent /\ container' # Absent) => live' = live]_vars
    /\ []((/\ Len(Lifecycle) > 0
           /\ Lifecycle[1].cmd = "launch" /\ Lifecycle[1].ok
           /\ container # Absent) =>
              /\ live.profiles = profiles
              /\ StripVolatile(live.config)
                     = (IF config.some THEN config.val ELSE {}))

C16_Witness ==
    /\ KeepsExisting /\ RunSucceeded
    /\ state = "started"
    /\ config.some /\ config.val # StripVolatile(live.config)
    /\ profiles # live.profiles

====
